---- MODULE Spec2Model ----
(***************************************************************************)
(* TinyRange (src/index.js): a parser of integer range expressions such as *)
(* "1,3,5~10,-2~0" into a sorted list of merged intervals.                 *)
(*                                                                         *)
(* Representation.                                                         *)
(*   - A JavaScript string is a sequence of one-character strings.         *)
(*   - A JavaScript number is an integer.  Every numeral the model feeds   *)
(*     to parseFloat is far below 2^53, where parseFloat, the comparisons  *)
(*     and "+ 1" are exact; -0 is identified with 0 (they are == in JS).   *)
(*   - An interval [low, high] is the pair <<low, high>>.  In the list     *)
(*     parse returns, a collapsed single value v is the 1-tuple <<v>> and  *)
(*     a range stays <<low, high>>.                                        *)
(*   - The model checker's integers are 32 bits wide, so the sentinel      *)
(*     Math.pow(2, 32) - 1 is scaled to 2^PowBits - 1.                     *)
(***************************************************************************)
EXTENDS Integers, Sequences, FiniteSets, TLC

VARIABLES
  options,    \* this.options: the frozen bounds [min, max]
  lastIndex,  \* lastIndex of every RegExp object in this.options.res
  str,        \* the argument of the current call of parse
  pc,         \* "idle": the caller composes str; "returned"/"threw": parse ended
  ret,        \* the list parse returned (<<>> when it threw)
  prev        \* history: how the previous call on this instance ended
              \* ("none" at first; kept on record under SpecCalls only)

vars == <<options, lastIndex, str, pc, ret, prev>>

\* ---------------------------------------------------------------- bounds
MaxLen == 5
MaxCallLen == 4
PowBits == 2

\* The characters the caller types: three digits, the three range
\* punctuation marks, a blank and a letter outside the permitted alphabet.
TypedChars == {"1", "2", "5", "-", "~", ",", " ", "a"}

\* ---------------------------------------------------------------- characters
Digits == {"0", "1", "2", "3", "4", "5", "6", "7", "8", "9"}

\* \s of the regular expressions (the newline, tab, ... behave as the blank)
Blanks == {" "}

DigitVal(c) ==
  CASE c = "0" -> 0 [] c = "1" -> 1 [] c = "2" -> 2 [] c = "3" -> 3
    [] c = "4" -> 4 [] c = "5" -> 5 [] c = "6" -> 6 [] c = "7" -> 7
    [] c = "8" -> 8 [] c = "9" -> 9

RECURSIVE Pow2(_)
Pow2(n) == IF n = 0 THEN 1 ELSE 2 * Pow2(n - 1)

\* var max = Math.pow(2, 32) - 1
max == Pow2(PowBits) - 1

\* this.options = { min: -max, max: max, res: {...} }
DefaultOptions == [min |-> -max, max |-> max]

ReNames == {"range", "blank", "number", "min2num", "num2max", "num2num", "numdashnum"}

\* The flags of the regular expression literals: only blank carries g.
FlagsRangeGlobal(n) == IF n \in {"blank", "range"} THEN "g" ELSE ""

Flags(n) == IF n = "blank" THEN "g" ELSE ""

\* ---------------------------------------------------------------- regular expressions
\* \d+
IsDigits(s) == Len(s) >= 1 /\ \A i \in 1..Len(s) : s[i] \in Digits

\* \-?\d+
IsNumeral(s) ==
  /\ Len(s) >= 1
  /\ IF s[1] = "-" THEN IsDigits(SubSeq(s, 2, Len(s))) ELSE IsDigits(s)

\* [\s\d\-~,]
RangeClassAny(c) == TRUE

RangeClass(c) == c \in Blanks \cup Digits \cup {"-", "~", ","}

\* range: /^[\s\d\-~,]+$/
re_range(s) == Len(s) >= 1 /\ \A i \in 1..Len(s) : RangeClass(s[i])

\* number: /^\-?\d+$/
re_number(s) == IsNumeral(s)

\* min2num: /^~\-?\d+$/
re_min2num(s) == Len(s) >= 1 /\ s[1] = "~" /\ IsNumeral(SubSeq(s, 2, Len(s)))

\* num2max: /^\-?\d+~$/
re_num2max(s) == Len(s) >= 1 /\ s[Len(s)] = "~" /\ IsNumeral(SubSeq(s, 1, Len(s) - 1))

\* num2num: /^\-?\d+~\-?\d+$/
re_num2num(s) ==
  \E k \in 1..Len(s) :
    s[k] = "~" /\ IsNumeral(SubSeq(s, 1, k - 1)) /\ IsNumeral(SubSeq(s, k + 1, Len(s)))

\* numdashnum: /^\-?\d+-\-?\d+$/
re_numdashnum(s) ==
  \E k \in 1..Len(s) :
    s[k] = "-" /\ IsNumeral(SubSeq(s, 1, k - 1)) /\ IsNumeral(SubSeq(s, k + 1, Len(s)))

\* opts.res[n].test(s) for the five token patterns (none carries g, so test
\* neither reads nor writes lastIndex)
Test(n, s) ==
  CASE n = "number" -> re_number(s)
    [] n = "min2num" -> re_min2num(s)
    [] n = "num2max" -> re_num2max(s)
    [] n = "num2num" -> re_num2num(s)
    [] n = "numdashnum" -> re_numdashnum(s)

\* opts.res.range.test(str) as RegExp.prototype.test does it: a pattern with
\* the g flag starts at lastIndex (the anchor ^ matches at index 0 only),
\* stores the end of the match on success and 0 on failure; a pattern
\* without g ignores lastIndex and leaves it alone.
RangeTest(s, li) ==
  LET global == Flags("range") = "g"
      matched == (global => li["range"] = 0) /\ re_range(s)
  IN  [matched |-> matched,
       lastIndex |-> IF global
                     THEN [li EXCEPT !["range"] = IF matched THEN Len(s) ELSE 0]
                     ELSE li]

\* ---------------------------------------------------------------- string functions
\* str.replace(opts.res.blank, ''): blank is /\s+/g, every blank run goes
RECURSIVE RemoveBlanks(_)
RemoveBlanks(s) ==
  IF s = <<>> THEN <<>>
  ELSE IF Head(s) \in Blanks THEN RemoveBlanks(Tail(s))
       ELSE <<Head(s)>> \o RemoveBlanks(Tail(s))

\* String.prototype.replace with a global pattern leaves its lastIndex at 0
ReplaceLastIndex(li) == [li EXCEPT !["blank"] = 0]

\* s.indexOf(c, from): the 0-based index of the first c at index >= from, or -1
indexOf(s, c, from) ==
  LET hits == {i \in from..(Len(s) - 1) : s[i + 1] = c}
  IN  IF hits = {} THEN -1 ELSE CHOOSE i \in hits : \A j \in hits : i <= j

\* s.substr(start) and s.substr(start, length), 0-based
substrFrom(s, start) == SubSeq(s, start + 1, Len(s))
substr(s, start, length) == SubSeq(s, start + 1, start + length)

\* s.split(c): the segments between the occurrences of c, empty ones included
RECURSIVE split(_, _)
split(s, c) ==
  LET d == indexOf(s, c, 0)
  IN  IF d = -1 THEN <<s>>
      ELSE <<substr(s, 0, d)>> \o split(substrFrom(s, d + 1), c)

RECURSIVE Decimal(_)
Decimal(ds) ==
  IF ds = <<>> THEN 0
  ELSE 10 * Decimal(SubSeq(ds, 1, Len(ds) - 1)) + DigitVal(ds[Len(ds)])

NaN == "NaN"

\* parseFloat(s) on the strings parse hands it, which hold digits, "-" and "~"
\* only: an optional "-", then the longest run of digits; NaN without a digit.
parseFloat(s) ==
  LET neg == Len(s) >= 1 /\ s[1] = "-"
      body == IF neg THEN Tail(s) ELSE s
      stops == {i \in 1..Len(body) : body[i] \notin Digits}
      n == IF stops = {} THEN Len(body)
           ELSE (CHOOSE i \in stops : \A j \in stops : i <= j) - 1
      v == Decimal(SubSeq(body, 1, n))
  IN  IF n = 0 THEN NaN ELSE IF neg THEN -v ELSE v

\* s.slice(0, -1): s without its last character
sliceButLast(s) == SubSeq(s, 1, Len(s) - 1)

\* Array.prototype.reverse on a pair
reverse(r) == <<r[2], r[1]>>

\* ---------------------------------------------------------------- TinyRange.parser
\* number: function(s) { var d = parseFloat(s); return [d, d]; }
parser_number(s) ==
  LET d == parseFloat(s) IN <<d, d>>

\* min2num: return [opts.min, parseFloat(s.substr(1))]
parser_min2num(s, opts) == <<opts.min, parseFloat(substrFrom(s, 1))>>

\* num2max: return [parseFloat(s.slice(0, -1)), opts.max]
parser_num2max(s, opts) == <<parseFloat(sliceButLast(s)), opts.max>>

\* num2num: split at "~", parseFloat both, reverse when r[0] > r[1]
parser_num2num(s) ==
  LET parts == split(s, "~")
      r == <<parseFloat(parts[1]), parseFloat(parts[2])>>
  IN  IF r[1] > r[2] THEN reverse(r) ELSE r

\* the same with the separator taken as the LAST dash of the token
numdashnum_lastDash(s) ==
  LET dashes == {i \in 1..(Len(s) - 1) : s[i + 1] = "-"}
      d == CHOOSE i \in dashes : \A j \in dashes : j <= i
      r == <<parseFloat(substr(s, 0, d)), parseFloat(substrFrom(s, d + 1))>>
  IN  IF r[1] > r[2] THEN reverse(r) ELSE r

\* numdashnum: the separator is s.indexOf("-", 1)
parser_numdashnum(s) ==
  LET d == indexOf(s, "-", 1)
      r == <<parseFloat(substr(s, 0, d)), parseFloat(substrFrom(s, d + 1))>>
  IN  IF r[1] > r[2] THEN reverse(r) ELSE r

\* TinyRange.parser[n](s, opts)
Convert(n, s, opts) ==
  CASE n = "number" -> parser_number(s)
    [] n = "min2num" -> parser_min2num(s, opts)
    [] n = "num2max" -> parser_num2max(s, opts)
    [] n = "num2num" -> parser_num2num(s)
    [] n = "numdashnum" -> parser_numdashnum(s)

\* ---------------------------------------------------------------- parse
\* the order in which parse tries the shapes
ShapeOrder == <<"number", "min2num", "num2max", "num2num", "numdashnum">>

\* a token no pattern matches is converted all the same (to [0, 0])
parseTokenKeepAll(s, opts) ==
  LET hits == {i \in 1..Len(ShapeOrder) : Test(ShapeOrder[i], s)}
      first == CHOOSE i \in hits : \A j \in hits : i <= j
  IN  IF hits = {} THEN <<<<0, 0>>>> ELSE <<Convert(ShapeOrder[first], s, opts)>>

\* The body of the forEach callback for a non-empty segment s: ret stays null
\* unless a pattern matches, and the first matching pattern's parser converts
\* s.  The value is what "ret && rg.push(ret)" pushes: nothing or one interval.
parseToken(s, opts) ==
  LET hits == {i \in 1..Len(ShapeOrder) : Test(ShapeOrder[i], s)}
      first == CHOOSE i \in hits : \A j \in hits : i <= j
  IN  IF hits = {} THEN <<>> ELSE <<Convert(ShapeOrder[first], s, opts)>>

\* rg after the forEach over the segments: empty segments are skipped
RECURSIVE collect(_, _)
collect(segs, opts) ==
  IF segs = <<>> THEN <<>>
  ELSE (IF Len(Head(segs)) = 0 THEN <<>> ELSE parseToken(Head(segs), opts))
       \o collect(Tail(segs), opts)

\* str.replace(opts.res.blank, '').split(',')
Segments(s) == split(RemoveBlanks(s), ",")

\* rg.sort(function(r1, r2) { return r1[0] - r2[0]; }): every arrangement of
\* rg that ascends by r[0].  The order of intervals with equal r[0] is the
\* engine's choice (the sort need not be stable), so all of them are kept.
IndexPermutations(n) ==
  {p \in [1..n -> 1..n] : \A i, j \in 1..n : i # j => p[i] # p[j]}

sortOutcomes(rg) ==
  LET n == Len(rg)
      arr(p) == [i \in 1..n |-> rg[p[i]]]
  IN  {arr(p) : p \in {q \in IndexPermutations(n) :
                         \A i \in 1..(n - 1) : rg[q[i]][1] <= rg[q[i + 1]][1]}}

\* ---------------------------------------------------------------- _merge
\* the marker of a consumed slot: rg[i] = null
null == <<>>

\* a gap test that forgets the "+ 1": adjacent intervals stay apart
GapStrict(cur, nxt) == nxt[1] > cur[2]

\* if (rg[i][0] > rg[n][1] + 1): the next interval starts beyond the gap
Gap(cur, nxt) == nxt[1] > cur[2] + 1

\* a merge that never moves the upper end
ExtendNever(cur, nxt) == cur

\* if (rg[n][1] < rg[i][1]) rg[n][1] = rg[i][1]
Extend(cur, nxt) == IF cur[2] < nxt[2] THEN <<cur[1], nxt[2]>> ELSE cur

\* the for loop of _merge from index i on (n, i are the 1-based n + 1, i + 1)
RECURSIVE MergeLoop(_, _, _)
MergeLoop(rg, n, i) ==
  IF i > Len(rg) THEN rg
  ELSE IF Gap(rg[n], rg[i]) THEN MergeLoop(rg, i, i + 1)
       ELSE MergeLoop([rg EXCEPT ![n] = Extend(rg[n], rg[i]), ![i] = null], n, i + 1)

\* r && ret.push(r[0] == r[1] ? r[0] : r)
RECURSIVE wrap(_)
wrap(rg) ==
  IF rg = <<>> THEN <<>>
  ELSE (IF Head(rg) = null THEN <<>>
        ELSE IF Head(rg)[1] = Head(rg)[2] THEN <<<<Head(rg)[1]>>>> ELSE <<Head(rg)>>)
       \o wrap(Tail(rg))

_merge(rg) == wrap(MergeLoop(rg, 1, 2))

\* What one call parse(s) can do on an instance with bounds opts and regular
\* expression state li: throw, or return a list, one per order sort may pick.
ParseOutcomes(s, opts, li) ==
  LET t == RangeTest(s, li)
      rg == collect(Segments(s), opts)
      li2 == ReplaceLastIndex(t.lastIndex)
  IN  IF ~t.matched
      THEN {[threw |-> TRUE, ret |-> <<>>, lastIndex |-> t.lastIndex]}
      ELSE IF Len(rg) = 0
           THEN {[threw |-> FALSE, ret |-> rg, lastIndex |-> li2]}
           ELSE {[threw |-> FALSE, ret |-> _merge(sorted), lastIndex |-> li2] :
                   sorted \in sortOutcomes(rg)}

\* ---------------------------------------------------------------- the state machine
\* new TinyRange(): the default options, every lastIndex 0, no call made yet
Init ==
  /\ options = DefaultOptions
  /\ lastIndex = [n \in ReNames |-> 0]
  /\ str = <<>>
  /\ pc = "idle"
  /\ ret = <<>>
  /\ prev = "none"

\* the caller extends the argument of the next call by one character, up to
\* n characters
Type(c, n) ==
  /\ pc = "idle"
  /\ Len(str) < n
  /\ str' = Append(str, c)
  /\ UNCHANGED <<options, lastIndex, pc, ret, prev>>

\* instance.parse(str), start to end
Parse ==
  /\ pc = "idle"
  /\ \E o \in ParseOutcomes(str, options, lastIndex) :
       /\ pc' = IF o.threw THEN "threw" ELSE "returned"
       /\ ret' = o.ret
       /\ lastIndex' = o.lastIndex
  /\ UNCHANGED <<options, str, prev>>

\* the caller has the outcome and turns to its next call on the same instance
NextCall ==
  /\ pc \in {"returned", "threw"}
  /\ pc' = "idle"
  /\ str' = <<>>
  /\ ret' = <<>>
  /\ UNCHANGED <<options, lastIndex, prev>>

\* the same, with the way the finished call ended kept in prev
NextCallLogged ==
  /\ pc \in {"returned", "threw"}
  /\ prev' = pc
  /\ pc' = "idle"
  /\ str' = <<>>
  /\ ret' = <<>>
  /\ UNCHANGED <<options, lastIndex>>

\* calls on one instance, arguments of up to MaxLen characters
Next == (\E c \in TypedChars : Type(c, MaxLen)) \/ Parse \/ NextCall

Spec == Init /\ [][Next]_vars

\* sequences of calls on one instance with the previous outcome on record,
\* arguments of up to MaxCallLen characters
NextCalls == (\E c \in TypedChars : Type(c, MaxCallLen)) \/ Parse \/ NextCallLogged

SpecCalls == Init /\ [][NextCalls]_vars

\* ================================================================ properties
\* The definitions from here on state the checked properties; they read the
\* model above and are no part of it.

\* an entry of the returned list as an interval: the scalar <<v>> is (v, v)
Lo(e) == e[1]
Hi(e) == e[Len(e)]

\* the alphabet the specification permits: digits, whitespace, "-", "~", ","
PermittedChars ==
  {"0", "1", "2", "3", "4", "5", "6", "7", "8", "9", " ", "-", "~", ","}

AllPermitted(s) == \A i \in 1..Len(s) : s[i] \in PermittedChars

FreshLastIndex == [n \in ReNames |-> 0]

\* the outcomes of parse(s) on a freshly constructed instance
FreshOutcomes(s) == ParseOutcomes(s, DefaultOptions, FreshLastIndex)

\* the lists parse(s) can return on a fresh instance (none when it throws)
FreshLists(s) == {o.ret : o \in {x \in FreshOutcomes(s) : ~x.threw}}

Throws(s) == \E o \in FreshOutcomes(s) : o.threw

\* the intervals the tokens of the current argument convert to
TokenIntervals == collect(Segments(str), options)

\* the segments joined by ","
RECURSIVE Join(_)
Join(segs) ==
  IF segs = <<>> THEN <<>>
  ELSE IF Len(segs) = 1 THEN segs[1]
       ELSE segs[1] \o <<",">> \o Join(Tail(segs))

\* the argument with segment k taken out from between its commas
Without(segs, k) == Join([segs EXCEPT ![k] = <<>>])

Covers(list, x) == \E i \in 1..Len(list) : Lo(list[i]) <= x /\ x <= Hi(list[i])

\* Two finite unions of integer intervals are equal iff they agree at every
\* end point and at the integers next to the end points.
ProbePoints(list) ==
  UNION {{Lo(list[i]) - 1, Lo(list[i]), Hi(list[i]), Hi(list[i]) + 1} :
           i \in 1..Len(list)}

C3_ForeignCharThrows ==
  (pc # "idle" /\ ~AllPermitted(str)) => (pc = "threw" /\ ret = <<>>)

\* parse threw on an argument that holds a foreign character next to a
\* well-formed token
C3_Witness ==
  /\ pc = "threw"
  /\ ~AllPermitted(str)
  /\ Len(TokenIntervals) >= 1

\* ---------------------------------------------------------------- C4
\* C4: parse applied to the empty string returns the empty list and raises
\* no error.
C4_EmptyStringReturnsEmpty ==
  (pc # "idle" /\ str = <<>>) => (pc = "returned" /\ ret = <<>>)

\* ---------------------------------------------------------------- C5
\* C5: whenever parse returns, parse of every permutation of the argument's
\* comma-separated segments returns the identical list, whichever order the
\* sort gives to intervals with equal low bound.
C5_OrderIndependent ==
  pc = "returned" =>
    LET segs == split(str, ",")
    IN  \A p \in IndexPermutations(Len(segs)) :
          LET s2 == Join([i \in 1..Len(segs) |-> segs[p[i]]])
          IN  ~Throws(s2) /\ FreshLists(s2) = {ret}

\* ---------------------------------------------------------------- C6
DigitChar(d) ==
  CASE d = 0 -> "0" [] d = 1 -> "1" [] d = 2 -> "2" [] d = 3 -> "3"
    [] d = 4 -> "4" [] d = 5 -> "5" [] d = 6 -> "6" [] d = 7 -> "7"
    [] d = 8 -> "8" [] d = 9 -> "9"

RECURSIVE NatNumeral(_)
NatNumeral(v) ==
  IF v < 10 THEN <<DigitChar(v)>>
  ELSE NatNumeral(v \div 10) \o <<DigitChar(v % 10)>>

\* the decimal numeral of an integer
Numeral(v) == IF v < 0 THEN <<"-">> \o NatNumeral(-v) ELSE NatNumeral(v)

\* the canonical string of a returned list: a scalar as its numeral, a pair
\* as low~high, the entries joined by ","
Canonical(list) ==
  Join([i \in 1..Len(list) |->
          IF Len(list[i]) = 1 THEN Numeral(list[i][1])
          ELSE Numeral(list[i][1]) \o <<"~">> \o Numeral(list[i][2])])

\* C6: whenever parse returns a list, parsing the canonical string of that
\* list succeeds and returns the same list, the empty list included.
C6_Idempotent ==
  pc = "returned" =>
    (~Throws(Canonical(ret)) /\ FreshLists(Canonical(ret)) = {ret})

\* ---------------------------------------------------------------- C7
\* C7: after any sequence of calls, returning or throwing, the instance is as
\* constructed (the default bounds, every lastIndex 0), and the outcome of
\* the current call is an outcome of the same call on a fresh instance.
C7_InstanceUnchanged ==
  /\ options = DefaultOptions
  /\ lastIndex = FreshLastIndex
  /\ pc # "idle" =>
       \E o \in FreshOutcomes(str) : o.threw = (pc = "threw") /\ o.ret = ret

\* a call returned a non-empty list on an instance whose previous call threw
C7_Witness ==
  /\ pc = "returned"
  /\ prev = "threw"
  /\ ret # <<>>

\* ---------------------------------------------------------------- C8
\* C8: every interval a token converts to, and every pair in the returned
\* list, has low <= high.
C8_LowLeHigh ==
  pc = "returned" =>
    /\ \A i \in 1..Len(TokenIntervals) : TokenIntervals[i][1] <= TokenIntervals[i][2]
    /\ \A i \in 1..Len(ret) : Lo(ret[i]) <= Hi(ret[i])

\* ---------------------------------------------------------------- C9
\* a non-empty segment that none of the five patterns matches
Shapeless(t) ==
  Len(t) >= 1 /\ \A i \in 1..Len(ShapeOrder) : ~Test(ShapeOrder[i], t)

SignedNumeral(s) ==
  LET ds == IF Len(s) >= 1 /\ s[1] = "-" THEN Tail(s) ELSE s
  IN  Len(ds) >= 1 /\ \A i \in 1..Len(ds) : ds[i] \in Digits

RECURSIVE Pow10(_)
Pow10(n) == IF n = 0 THEN 1 ELSE 10 * Pow10(n - 1)

RECURSIVE DigitsValue(_)
DigitsValue(ds) ==
  IF ds = <<>> THEN 0 ELSE DigitVal(Head(ds)) * Pow10(Len(ds) - 1) + DigitsValue(Tail(ds))

SignedValue(s) == IF s[1] = "-" THEN -DigitsValue(Tail(s)) ELSE DigitsValue(s)

\* t is a-b with the separating dash at position k (1-based)
DashForm(t, k) ==
  /\ t[k] = "-"
  /\ SignedNumeral(SubSeq(t, 1, k - 1))
  /\ SignedNumeral(SubSeq(t, k + 1, Len(t)))

\* C10: every token a-b of the current argument, a and b optionally negative
\* numerals, has its separator at the first "-" at index >= 1 and converts
\* to (min(a,b), max(a,b)); and parse("1-5,3-10") returns [[1,10]].
C10_DashForm ==
  /\ pc = "returned" =>
       \A i \in 1..Len(Segments(str)) :
         LET t == Segments(str)[i]
         IN  \A k \in 1..Len(t) :
               DashForm(t, k) =>
                 LET a == SignedValue(SubSeq(t, 1, k - 1))
                     b == SignedValue(SubSeq(t, k + 1, Len(t)))
                 IN  /\ k >= 2
                     /\ \A j \in 2..(k - 1) : t[j] # "-"
                     /\ parseToken(t, options)
                          = <<IF a <= b THEN <<a, b>> ELSE <<b, a>>>>
  /\ FreshOutcomes(<<"1", "-", "5", ",", "3", "-", "1", "0">>)
       = {[threw |-> FALSE, ret |-> <<<<1, 10>>>>, lastIndex |-> FreshLastIndex]}

\* parse returned for an argument holding a dash token whose first number is
\* negative or whose second number is negative (a swap or a leading minus)
C10_Witness ==
  /\ pc = "returned"
  /\ \E i \in 1..Len(Segments(str)) :
       LET t == Segments(str)[i]
       IN  \E k \in 1..Len(t) :
             /\ DashForm(t, k)
             /\ t[1] = "-"
             /\ t[k + 1] = "-"
             /\ ret = <<<<SignedValue(SubSeq(t, k + 1, Len(t))),
                         SignedValue(SubSeq(t, 1, k - 1))>>>>

====
